---- MODULE Spec2Model ----
(***************************************************************************)
(* Model of src/server.js: a WebSocket position-broadcast server.          *)
(*                                                                         *)
(* The server is a single-threaded event loop, so every handler            *)
(* (connection, message, close, error) runs to completion and is one       *)
(* action.  A connection handle `ws` is the ordinal of the connection      *)
(* (1 for the first socket accepted, 2 for the second, ...); the player id *)
(* attached to it is the string ws.id built from nextPlayerId.             *)
(***************************************************************************)
EXTENDS Integers, Sequences, FiniteSets, TLC

\* ---- program constants (src/server.js:4-6) ----
WORLD_SIZE == 500
PLAYER_SIZE == 20
MOVEMENT_SPEED == 5

\* ---- bounds of the model ----
MaxConns == 3     \* connections accepted during one run
MaxMoves == 2     \* position changes during one run

\* getRandomColor: '#' and six hex digits.  The color is stored in the player
\* and echoed in messages; no branch of the server reads it, so one of the
\* 16^6 values stands for all of them
Colors == {"#1A2B3C"}

\* direction values a client may put in a movement message
Directions == {"w", "a", "s", "d", "up", "left", "down", "right", "x"}

\* chat texts
Texts == {"hi"}

\* message types that are neither movement nor chat
OtherTypes == {"ping"}

\* what a client may write to its socket: text that JSON.parse rejects,
\* the JSON literal null, or a JSON object with the fields the handler reads
Payloads ==
    {[json |-> "invalid", type |-> "", direction |-> "", message |-> ""]}
    \cup {[json |-> "null", type |-> "", direction |-> "", message |-> ""]}
    \cup {[json |-> "object", type |-> "movement", direction |-> d, message |-> ""] :
            d \in Directions}
    \cup {[json |-> "object", type |-> "chat", direction |-> "", message |-> t] :
            t \in Texts}
    \cup {[json |-> "object", type |-> t, direction |-> "", message |-> ""] :
            t \in OtherTypes}

NoPayload == [json |-> "none", type |-> "", direction |-> "", message |-> ""]

VARIABLES
    running,       \* TRUE while the node process is alive
    players,       \* the registry: id string -> {x, y, color, name, id}
    nextPlayerId,  \* the id counter
    clients,       \* wss.clients, in insertion order (a JS Set iterates so)
    readyState,    \* readyState[ws] of every connection accepted so far
    wsId,          \* ws.id of every connection accepted so far
    sent,          \* the writes of the last handler, in the order issued
    opening,       \* opening[ws]: the types of the first two messages written to ws
    ev,            \* the event the last handler was called with; ev.state is
                   \* the readyState its socket had when the event arrived
    nMoves,        \* position changes so far (bounded by MaxMoves)
    view           \* view[ws]: the player table the client of an OPEN socket
                   \* has built from the messages written to it

vars == <<running, players, nextPlayerId, clients, readyState, wsId, sent,
          opening, ev, nMoves, view>>

----------------------------------------------------------------------------
\* helpers

Range(s) == {s[i] : i \in 1..Len(s)}

Min(a, b) == IF a < b THEN a ELSE b
Max(a, b) == IF a > b THEN a ELSE b

\* `player-${n}`
PlayerIdOf(n) == "player-" \o ToString(n)

\* `Player ${playerId.split('-')[1]}`: the text after the first '-' of
\* `player-${n}` is the decimal text of n
PlayerNameOf(n) == "Player " \o ToString(n)

initialX == (WORLD_SIZE \div 2) - (PLAYER_SIZE \div 2)
initialY == (WORLD_SIZE \div 2) - (PLAYER_SIZE \div 2)

\* nextPlayerId++ : the value the counter has after the allocation
BumpReused(n) == n
Bump(n) == n + 1

\* players[playerId] = {...}: assignment, an existing key is overwritten
Insert(reg, id, p) == [k \in DOMAIN reg \cup {id} |-> IF k = id THEN p ELSE reg[k]]

\* delete players[ws.id]: no effect when the key is absent
DeleteNothing(reg, id) == reg
DeleteSplice(reg, id) ==
    IF id \in DOMAIN reg THEN [k \in DOMAIN reg \ {id} |-> reg[k]]
    ELSE IF DOMAIN reg = {} THEN reg
    ELSE LET last == CHOOSE k \in DOMAIN reg : TRUE
         IN  [k \in DOMAIN reg \ {last} |-> reg[k]]
Delete(reg, id) == [k \in DOMAIN reg \ {id} |-> reg[k]]

\* one write: the target, the message as serialized at that moment, and the
\* ids the registry held at that moment
Write(to, msg, reg) == [to |-> to, msg |-> msg, ids |-> DOMAIN reg]

\* client.readyState === WebSocket.OPEN
IsOpenAlways(rs, c) == TRUE
IsOpen(rs, c) == rs[c] = "OPEN"

\* wss.clients.forEach(client => { if (OPEN) client.send(msg) })
RECURSIVE Broadcast(_, _, _, _)
Broadcast(cs, rs, msg, reg) ==
    IF cs = <<>> THEN <<>>
    ELSE (IF IsOpen(rs, Head(cs)) THEN <<Write(Head(cs), msg, reg)>> ELSE <<>>)
         \o Broadcast(Tail(cs), rs, msg, reg)

\* client !== ws
IsOtherAlways(client, ws) == TRUE
IsOther(client, ws) == client # ws

\* wss.clients.forEach(client => { if (client !== ws && OPEN) client.send(msg) })
RECURSIVE BroadcastOthers(_, _, _, _, _)
BroadcastOthers(cs, rs, ws, msg, reg) ==
    IF cs = <<>> THEN <<>>
    ELSE (IF IsOther(Head(cs), ws) /\ IsOpen(rs, Head(cs))
          THEN <<Write(Head(cs), msg, reg)>> ELSE <<>>)
         \o BroadcastOthers(Tail(cs), rs, ws, msg, reg)

\* the types of the messages a handler wrote to connection ws, in order
RECURSIVE Delivered(_, _)
Delivered(ws, log) ==
    IF log = <<>> THEN <<>>
    ELSE (IF Head(log).to = ws THEN <<Head(log).msg.type>> ELSE <<>>)
         \o Delivered(ws, Tail(log))

\* opening[ws] after a handler wrote `log`
Opened(op, log) ==
    [c \in DOMAIN op |->
        LET all == op[c] \o Delivered(c, log)
        IN  IF Len(all) <= 2 THEN all ELSE SubSeq(all, 1, 2)]

\* the messages a handler wrote to connection ws, in order
RECURSIVE MessagesTo(_, _)
MessagesTo(ws, log) ==
    IF log = <<>> THEN <<>>
    ELSE (IF Head(log).to = ws THEN <<Head(log).msg>> ELSE <<>>)
         \o MessagesTo(ws, Tail(log))

\* the table of a client after it has read message m: currentPlayers sets
\* it, playerJoined adds a row, playerMoved changes a row it has, playerLeft
\* removes a row; init and chat do not concern the table
ApplyMsg(t, m) ==
    CASE m.type = "currentPlayers" ->
            [id \in DOMAIN m.players |-> [x |-> m.players[id].x, y |-> m.players[id].y]]
      [] m.type = "playerJoined" ->
            Insert(t, m.player.id, [x |-> m.player.x, y |-> m.player.y])
      [] m.type = "playerMoved" ->
            IF m.playerId \in DOMAIN t
            THEN [t EXCEPT ![m.playerId] = [x |-> m.x, y |-> m.y]]
            ELSE t
      [] m.type = "playerLeft" -> Delete(t, m.playerId)
      [] OTHER -> t

RECURSIVE ApplyAll(_, _)
ApplyAll(t, ms) == IF ms = <<>> THEN t ELSE ApplyAll(ApplyMsg(t, Head(ms)), Tail(ms))

\* view after a handler wrote `log`; rs is readyState after the handler and
\* the client of a socket that is not OPEN is no longer followed
Viewed(v, rs, log) ==
    [c \in DOMAIN v |->
        IF rs[c] = "OPEN" THEN ApplyAll(v[c], MessagesTo(c, log)) ELSE <<>>]

----------------------------------------------------------------------------
\* messages the server writes

InitMsg(id, p) ==
    [type |-> "init", playerId |-> id, playerState |-> p,
     worldSize |-> WORLD_SIZE, playerSize |-> PLAYER_SIZE]

\* JSON.stringify(players): the registry as it is at the write
SnapshotWithoutSelf(reg, id) == Delete(reg, id)
Snapshot(reg, id) == reg

CurrentPlayersMsg(reg, id) == [type |-> "currentPlayers", players |-> Snapshot(reg, id)]

PlayerJoinedMsg(p) == [type |-> "playerJoined", player |-> p]

PlayerMovedMsgSwapped(id, p) ==
    [type |-> "playerMoved", playerId |-> id, x |-> p.y, y |-> p.x]
PlayerMovedMsg(id, p) == [type |-> "playerMoved", playerId |-> id, x |-> p.x, y |-> p.y]

PlayerLeftMsg(id) == [type |-> "playerLeft", playerId |-> id]

----------------------------------------------------------------------------
Init ==
    /\ running = TRUE
    /\ players = <<>>
    /\ nextPlayerId = 1
    /\ clients = <<>>
    /\ readyState = <<>>
    /\ wsId = <<>>
    /\ sent = <<>>
    /\ opening = <<>>
    /\ ev = [type |-> "start", ws |-> 0, raw |-> NoPayload, state |-> "NONE"]
    /\ nMoves = 0
    /\ view = <<>>

\* the three numbered steps of the connection handler: init and
\* currentPlayers to the new socket, then playerJoined to the others
ConnectionWritesJoinFirst(cs, rs, ws, playerId, reg) ==
    BroadcastOthers(cs, rs, ws, PlayerJoinedMsg(reg[playerId]), reg)
    \o <<Write(ws, InitMsg(playerId, reg[playerId]), reg),
         Write(ws, CurrentPlayersMsg(reg, playerId), reg)>>
ConnectionWrites(cs, rs, ws, playerId, reg) ==
    <<Write(ws, InitMsg(playerId, reg[playerId]), reg),
      Write(ws, CurrentPlayersMsg(reg, playerId), reg)>>
    \o BroadcastOthers(cs, rs, ws, PlayerJoinedMsg(reg[playerId]), reg)

\* wss.on('connection'): the library has added ws to wss.clients and the
\* socket is OPEN when the handler runs
OnConnection ==
    /\ running
    /\ Len(wsId) < MaxConns
    /\ \E playerColor \in Colors :
        LET ws == Len(wsId) + 1
            playerId == PlayerIdOf(nextPlayerId)
            playerName == PlayerNameOf(nextPlayerId)
            p == [x |-> initialX, y |-> initialY, color |-> playerColor,
                  name |-> playerName, id |-> playerId]
            reg == Insert(players, playerId, p)
            cs == Append(clients, ws)
            rs == Append(readyState, "OPEN")
            log == ConnectionWrites(cs, rs, ws, playerId, reg)
        IN  /\ nextPlayerId' = Bump(nextPlayerId)
            /\ players' = reg
            /\ clients' = cs
            /\ readyState' = rs
            /\ wsId' = Append(wsId, playerId)
            /\ sent' = log
            /\ opening' = Opened(Append(opening, <<>>), log)
            /\ view' = Viewed(Append(view, <<>>), rs, log)
            /\ ev' = [type |-> "connection", ws |-> ws, raw |-> NoPayload,
                      state |-> "OPEN"]
    /\ UNCHANGED <<running, nMoves>>

\* the switch on parsedMessage.direction: the position after the move
ResolveUnclamped(player, direction) ==
    CASE direction = "w" -> [x |-> player.x, y |-> player.y - MOVEMENT_SPEED]
      [] direction = "a" -> [x |-> player.x - MOVEMENT_SPEED, y |-> player.y]
      [] direction = "s" -> [x |-> player.x, y |-> player.y + MOVEMENT_SPEED]
      [] direction = "d" -> [x |-> player.x + MOVEMENT_SPEED, y |-> player.y]
      [] OTHER -> [x |-> player.x, y |-> player.y]
ResolveNamed(player, direction) ==
    CASE direction = "up" ->
            [x |-> player.x, y |-> Max(0, player.y - MOVEMENT_SPEED)]
      [] direction = "left" ->
            [x |-> Max(0, player.x - MOVEMENT_SPEED), y |-> player.y]
      [] direction = "down" ->
            [x |-> player.x,
             y |-> Min(WORLD_SIZE - PLAYER_SIZE, player.y + MOVEMENT_SPEED)]
      [] direction = "right" ->
            [x |-> Min(WORLD_SIZE - PLAYER_SIZE, player.x + MOVEMENT_SPEED),
             y |-> player.y]
      [] OTHER -> [x |-> player.x, y |-> player.y]
ResolveSwapped(player, direction) ==
    CASE direction = "w" ->
            [x |-> Max(0, player.x - MOVEMENT_SPEED), y |-> player.y]
      [] direction = "a" ->
            [x |-> player.x, y |-> Max(0, player.y - MOVEMENT_SPEED)]
      [] direction = "s" ->
            [x |-> Min(WORLD_SIZE - PLAYER_SIZE, player.x + MOVEMENT_SPEED),
             y |-> player.y]
      [] direction = "d" ->
            [x |-> player.x,
             y |-> Min(WORLD_SIZE - PLAYER_SIZE, player.y + MOVEMENT_SPEED)]
      [] OTHER -> [x |-> player.x, y |-> player.y]
Resolve(player, direction) ==
    CASE direction = "w" ->
            [x |-> player.x, y |-> Max(0, player.y - MOVEMENT_SPEED)]
      [] direction = "a" ->
            [x |-> Max(0, player.x - MOVEMENT_SPEED), y |-> player.y]
      [] direction = "s" ->
            [x |-> player.x,
             y |-> Min(WORLD_SIZE - PLAYER_SIZE, player.y + MOVEMENT_SPEED)]
      [] direction = "d" ->
            [x |-> Min(WORLD_SIZE - PLAYER_SIZE, player.x + MOVEMENT_SPEED),
             y |-> player.y]
      [] OTHER -> [x |-> player.x, y |-> player.y]

\* if (newX !== player.x || newY !== player.y)
ChangedAlways(player, new) == TRUE
Changed(player, new) == new.x # player.x \/ new.y # player.y

\* an exception leaves the listener: nothing catches it between the socket's
\* data event and the event loop, and the process has no uncaughtException
\* handler, so node prints the error and exits
Throw ==
    /\ running' = FALSE
    /\ sent' = <<>>
    /\ UNCHANGED <<players, opening, view>>

\* a return of the message handler before any write
Return ==
    /\ sent' = <<>>
    /\ UNCHANGED <<running, players, opening, view>>

\* if (!player) return;
MissingPlayerThrows == Throw
MissingPlayer == Return

\* player.x = newX; player.y = newY: `player` is the registry's own object
UpdateEveryone(reg, id, new) ==
    [k \in DOMAIN reg |-> [reg[k] EXCEPT !.x = new.x, !.y = new.y]]
Update(reg, id, new) ==
    [reg EXCEPT ![id] = [reg[id] EXCEPT !.x = new.x, !.y = new.y]]

\* case 'movement'
Movement(ws, raw) ==
    IF wsId[ws] \notin DOMAIN players
    THEN MissingPlayer
    ELSE LET player == players[wsId[ws]]
             new == Resolve(player, raw.direction)
             reg == Update(players, wsId[ws], new)
             moved == reg[wsId[ws]]
             log == Broadcast(clients, readyState,
                              PlayerMovedMsg(wsId[ws], moved), reg)
         IN  IF Changed(player, new)
             THEN /\ players' = reg
                  /\ sent' = log
                  /\ opening' = Opened(opening, log)
                  /\ view' = Viewed(view, readyState, log)
                  /\ UNCHANGED running
             ELSE /\ sent' = <<>>
                  /\ UNCHANGED <<running, players, opening, view>>

\* case 'chat': `const player` belongs to the block of the whole switch and
\* is initialized only by the statements of case 'movement'; a jump to
\* case 'chat' reads it before its initialization, a ReferenceError
Chat(ws, raw) == Throw

\* try { JSON.parse(message) } catch (e) { console.error(...); return; }
InvalidJsonUncaught == Throw
InvalidJson == Return

\* default: console.warn(...)
UnknownTypeAnswered(ws, raw) ==
    /\ sent' = <<Write(ws, [type |-> "error", message |-> raw.type], players)>>
    /\ UNCHANGED <<running, players, opening, view>>
UnknownType(ws, raw) == Return

\* the listener of ws.on('message')
MessageHandler(ws, raw) ==
    /\ running
    /\ raw.type = "movement" => nMoves < MaxMoves
    /\ ev' = [type |-> "message", ws |-> ws, raw |-> raw, state |-> readyState[ws]]
    /\ CASE raw.json = "invalid" -> InvalidJson
         [] raw.json = "null" ->
                \* JSON.parse gives null, parsedMessage.type is a TypeError
                Throw
         [] raw.json = "object" /\ raw.type = "movement" -> Movement(ws, raw)
         [] raw.json = "object" /\ raw.type = "chat" -> Chat(ws, raw)
         [] OTHER -> UnknownType(ws, raw)
    /\ nMoves' = IF players' # players THEN nMoves + 1 ELSE nMoves
    /\ UNCHANGED <<nextPlayerId, clients, readyState, wsId>>

\* ws.on('message'): the library emits message for an OPEN socket only
OnMessage(ws, raw) ==
    /\ readyState[ws] = "OPEN"
    /\ MessageHandler(ws, raw)

\* removal of one element of wss.clients
RECURSIVE Without(_, _)
Without(cs, ws) ==
    IF cs = <<>> THEN <<>>
    ELSE (IF Head(cs) = ws THEN <<>> ELSE <<Head(cs)>>) \o Without(Tail(cs), ws)

\* the playerLeft broadcast of the close handler; `before` is the registry
\* when the handler starts, `after` the registry after its delete statement
LeaveWritesBeforeDelete(cs, rs, id, before, after) ==
    Broadcast(cs, rs, PlayerLeftMsg(id), before)
LeaveWrites(cs, rs, id, before, after) ==
    Broadcast(cs, rs, PlayerLeftMsg(id), after)

\* the listener of ws.on('close'): the library has set readyState to CLOSED
\* and has removed ws from wss.clients (its own close listener was registered
\* first) when the listener runs
CloseHandler(ws) ==
    /\ running
    /\ LET rs == [readyState EXCEPT ![ws] = "CLOSED"]
           cs == Without(clients, ws)
           reg == Delete(players, wsId[ws])
           log == LeaveWrites(cs, rs, wsId[ws], players, reg)
       IN  /\ readyState' = rs
           /\ clients' = cs
           /\ players' = reg
           /\ sent' = log
           /\ opening' = Opened(opening, log)
           /\ view' = Viewed(view, rs, log)
    /\ ev' = [type |-> "close", ws |-> ws, raw |-> NoPayload,
              state |-> readyState[ws]]
    /\ UNCHANGED <<running, nextPlayerId, wsId, nMoves>>

\* ws.on('close'): a socket emits close once
OnClose(ws) ==
    /\ readyState[ws] \in {"OPEN", "CLOSING"}
    /\ CloseHandler(ws)

\* ws.on('error'): the library sets readyState to CLOSING before it emits
\* error; the handler only logs
OnError(ws) ==
    /\ running
    /\ readyState[ws] = "OPEN"
    /\ readyState' = [readyState EXCEPT ![ws] = "CLOSING"]
    /\ sent' = <<>>
    /\ view' = Viewed(view, readyState', <<>>)
    /\ ev' = [type |-> "error", ws |-> ws, raw |-> NoPayload,
              state |-> readyState[ws]]
    /\ UNCHANGED <<running, players, nextPlayerId, clients, wsId, opening, nMoves>>

Next ==
    \/ OnConnection
    \/ \E ws \in DOMAIN wsId : \E raw \in Payloads : OnMessage(ws, raw)
    \/ \E ws \in DOMAIN wsId : OnClose(ws)
    \/ \E ws \in DOMAIN wsId : OnError(ws)

Spec == Init /\ [][Next]_vars

----------------------------------------------------------------------------
\* A run that continues from a state the server is in after one client has
\* connected and walked into a corner of the world: 48 times 'a' and 48 times
\* 'w' from the center lead to (0, 0), 48 times 'd' and 48 times 's' to the
\* opposite corner, which MaxMoves cuts off in Spec.  The last message
\* handled was a movement with a direction the switch does not know, which
\* writes nothing.
WalkCorners == {0, WORLD_SIZE - PLAYER_SIZE}

InitWalk ==
    \E corner \in WalkCorners, playerColor \in Colors :
        LET playerId == PlayerIdOf(1)
            born == [x |-> initialX, y |-> initialY, color |-> playerColor,
                     name |-> PlayerNameOf(1), id |-> playerId]
            p == [born EXCEPT !.x = corner, !.y = corner]
        IN  /\ running = TRUE
            /\ players = Insert(<<>>, playerId, p)
            /\ nextPlayerId = Bump(1)
            /\ clients = <<1>>
            /\ readyState = <<"OPEN">>
            /\ wsId = <<playerId>>
            /\ sent = <<>>
            /\ opening = << <<"init", "currentPlayers">> >>
            /\ ev = [type |-> "message", ws |-> 1,
                     raw |-> [json |-> "object", type |-> "movement",
                              direction |-> "x", message |-> ""],
                     state |-> "OPEN"]
            /\ nMoves = 0
            /\ view = << Insert(<<>>, playerId, [x |-> corner, y |-> corner]) >>

SpecWalk == InitWalk /\ [][Next]_vars

----------------------------------------------------------------------------
\* The listeners stay attached to the socket object after its close event.
\* The library does not call them again, but the handlers are written for
\* that case ("Player not found (shouldn't happen)"); SpecRace lets the
\* transport deliver a second close event and a message after the close.
OnCloseAgain(ws) ==
    /\ readyState[ws] = "CLOSED"
    /\ CloseHandler(ws)

OnLateMessage(ws, raw) ==
    /\ readyState[ws] = "CLOSED"
    /\ MessageHandler(ws, raw)

NextRace ==
    \/ Next
    \/ \E ws \in DOMAIN wsId : OnCloseAgain(ws)
    \/ \E ws \in DOMAIN wsId : \E raw \in Payloads : OnLateMessage(ws, raw)

SpecRace == Init /\ [][NextRace]_vars

----------------------------------------------------------------------------
\* Properties

Conns == DOMAIN wsId

\* the positions in `sent` of the writes to connection c
WritesTo(c) == {i \in 1..Len(sent) : sent[i].to = c}

\* the number n of `player-${n}`
SuffixOf(id) ==
    IF \E n \in 1..MaxConns : PlayerIdOf(n) = id
    THEN CHOOSE n \in 1..MaxConns : PlayerIdOf(n) = id
    ELSE 0

IsConnection == ev.type = "connection"
IsClose == ev.type = "close"
IsMovement ==
    ev.type = "message" /\ ev.raw.json = "object" /\ ev.raw.type = "movement"
IsChat ==
    ev.type = "message" /\ ev.raw.json = "object" /\ ev.raw.type = "chat"

\* C1: the numeric suffix of the ids assigned at connect starts at 1 and is
\* strictly increasing, no id is assigned twice (also not the id of a player
\* that has disconnected), and a connect never inserts an id the registry
\* already holds.
C1_Assigned ==
    /\ Len(wsId) >= 1 => SuffixOf(wsId[1]) = 1
    /\ \A i, j \in Conns : i < j =>
          /\ SuffixOf(wsId[i]) >= 1
          /\ SuffixOf(wsId[i]) < SuffixOf(wsId[j])
          /\ wsId[i] # wsId[j]
C1_FreshInsert ==
    Len(wsId') = Len(wsId) + 1 =>
        /\ wsId'[Len(wsId')] \notin DOMAIN players
        /\ wsId'[Len(wsId')] \notin Range(wsId)
        /\ DOMAIN players' = DOMAIN players \cup {wsId'[Len(wsId')]}
C1_UniqueIncreasingIds == [](C1_Assigned) /\ [][C1_FreshInsert]_vars

\* a third connect after the first player has disconnected
C1_Witness ==
    /\ IsConnection /\ ev.ws = 3
    /\ readyState[1] = "CLOSED"
    /\ wsId[3] = "player-3"

\* C2: every player of the registry is inside the world on both axes
C2_InWorld ==
    \A id \in DOMAIN players :
        /\ 0 <= players[id].x /\ players[id].x <= WORLD_SIZE - PLAYER_SIZE
        /\ 0 <= players[id].y /\ players[id].y <= WORLD_SIZE - PLAYER_SIZE

\* a movement towards the wall handled for a player that stands at the wall
C2_Witness ==
    /\ IsMovement
    /\ wsId[ev.ws] \in DOMAIN players
    /\ \/ ev.raw.direction = "d" /\ players[wsId[ev.ws]].x = WORLD_SIZE - PLAYER_SIZE
       \/ ev.raw.direction = "w" /\ players[wsId[ev.ws]].y = 0

\* C3: the first write to a new connection is init with its own id and the
\* center position, the second is currentPlayers, nothing is written to it
\* before, and the playerJoined writes to the others come after both
C3_HandshakeOrder ==
    /\ \A c \in Conns : opening[c] = <<"init", "currentPlayers">>
    /\ IsConnection =>
          /\ Len(sent) >= 2
          /\ sent[1].to = ev.ws
          /\ sent[1].msg.type = "init"
          /\ sent[1].msg.playerId = wsId[ev.ws]
          /\ sent[1].msg.playerState.id = wsId[ev.ws]
          /\ sent[1].msg.playerState.x = (WORLD_SIZE \div 2) - (PLAYER_SIZE \div 2)
          /\ sent[1].msg.playerState.y = (WORLD_SIZE \div 2) - (PLAYER_SIZE \div 2)
          /\ sent[2].to = ev.ws
          /\ sent[2].msg.type = "currentPlayers"
          /\ \A i \in 3..Len(sent) :
                sent[i].msg.type = "playerJoined" /\ sent[i].to # ev.ws

\* a connect while another connection is open
C3_Witness ==
    /\ IsConnection
    /\ Len(sent) >= 3
    /\ sent[3].msg.type = "playerJoined"

\* the connections established and not yet closed
Live == {c \in Conns : readyState[c] # "CLOSED"}

\* C4: the currentPlayers snapshot holds exactly the players of the
\* connections established and not yet closed, the new one included, with
\* their current coordinates
C4_Snapshot ==
    IsConnection =>
        LET snap == sent[2].msg.players
        IN  /\ sent[2].msg.type = "currentPlayers"
            /\ DOMAIN snap = {wsId[c] : c \in Live}
            /\ wsId[ev.ws] \in DOMAIN snap
            /\ \A c \in Conns : readyState[c] = "CLOSED" => wsId[c] \notin DOMAIN snap
            /\ \A id \in DOMAIN snap :
                  /\ snap[id].id = id
                  /\ snap[id].x = players[id].x
                  /\ snap[id].y = players[id].y

\* C joins after A has left and B has moved
C4_Witness ==
    /\ IsConnection /\ ev.ws = 3
    /\ readyState[1] = "CLOSED" /\ readyState[2] = "OPEN"
    /\ wsId[2] \in DOMAIN sent[2].msg.players
    /\ sent[2].msg.players[wsId[2]].x # initialX

\* C5: on connect of P every other open connection is written exactly one
\* playerJoined, which carries P's state; a connection that is not open gets
\* none; and no connection is ever written a playerJoined about itself
C5_JoinedToOthers ==
    /\ \A i \in 1..Len(sent) :
          sent[i].msg.type = "playerJoined" => sent[i].msg.player.id # wsId[sent[i].to]
    /\ IsConnection =>
          \A c \in Conns :
              LET joins == {i \in WritesTo(c) : sent[i].msg.type = "playerJoined"}
              IN  IF c # ev.ws /\ readyState[c] = "OPEN"
                  THEN /\ Cardinality(joins) = 1
                       /\ \A i \in joins : sent[i].msg.player = players[wsId[ev.ws]]
                  ELSE joins = {}

\* a connect while one other connection is open and one is closing
C5_Witness ==
    /\ IsConnection
    /\ \E c \in Conns : c # ev.ws /\ readyState[c] = "OPEN"
    /\ \E c \in Conns : c # ev.ws /\ readyState[c] = "CLOSING"

\* the event of the step is a movement message of a registered player
MovementStep ==
    /\ ev'.type = "message" /\ ev'.raw.json = "object" /\ ev'.raw.type = "movement"
    /\ wsId[ev'.ws] \in DOMAIN players

\* the player stands at the wall the direction points to
AtWall(p, direction) ==
    \/ direction = "w" /\ p.y = 0
    \/ direction = "a" /\ p.x = 0
    \/ direction = "s" /\ p.y = WORLD_SIZE - PLAYER_SIZE
    \/ direction = "d" /\ p.x = WORLD_SIZE - PLAYER_SIZE

\* connection c is written exactly the message m by the step, once
WrittenOnce(c, m) ==
    LET to == {i \in 1..Len(sent') : sent'[i].to = c}
    IN  Cardinality(to) = 1 /\ \A i \in to : sent'[i].msg = m

\* C6: a movement that yields another position updates the registry entry of
\* the sender, on the axis of the direction only, and writes one playerMoved
\* with the sender's id and the new coordinates to every open connection,
\* the sender included, and to no other connection
C6_Step ==
    MovementStep =>
        LET id == wsId[ev'.ws]
            old == players[id]
            dir == ev'.raw.direction
        IN  /\ (dir \in {"w", "a", "s", "d"} /\ ~AtWall(old, dir)) =>
                  /\ id \in DOMAIN players'
                  /\ players'[id].x # old.x \/ players'[id].y # old.y
            /\ (players' # players) =>
                  /\ DOMAIN players' = DOMAIN players
                  /\ \A k \in DOMAIN players \ {id} : players'[k] = players[k]
                  /\ players'[id] = [old EXCEPT !.x = players'[id].x,
                                                !.y = players'[id].y]
                  /\ dir \in {"w", "s"} =>
                        players'[id].x = old.x /\ players'[id].y # old.y
                  /\ dir \in {"a", "d"} =>
                        players'[id].y = old.y /\ players'[id].x # old.x
                  /\ dir \in {"w", "a", "s", "d"}
                  /\ readyState[ev'.ws] = "OPEN"
                  /\ \A c \in Conns :
                        IF readyState[c] = "OPEN"
                        THEN WrittenOnce(c, [type |-> "playerMoved", playerId |-> id,
                                             x |-> players'[id].x,
                                             y |-> players'[id].y])
                        ELSE \A i \in 1..Len(sent') : sent'[i].to # c
C6_MovedBroadcast == [][C6_Step]_vars

\* a player has moved up or down while a second connection is open and a
\* third is closing
C6_Witness ==
    /\ IsMovement /\ ev.raw.direction \in {"w", "s"}
    /\ Len(sent) = 2
    /\ \E c \in Conns : readyState[c] = "CLOSING"
    /\ players[wsId[ev.ws]].y # initialY

\* C7 as the spec words it: the symbols up, left, down, right move the
\* sender by MOVEMENT_SPEED when it is not at the wall of that direction
C7_Original_Step ==
    MovementStep =>
        LET id == wsId[ev'.ws]
            old == players[id]
            dir == ev'.raw.direction
        IN  /\ (dir = "up" /\ old.y > 0) =>
                  players'[id].y = old.y - MOVEMENT_SPEED
            /\ (dir = "left" /\ old.x > 0) =>
                  players'[id].x = old.x - MOVEMENT_SPEED
            /\ (dir = "down" /\ old.y < WORLD_SIZE - PLAYER_SIZE) =>
                  players'[id].y = old.y + MOVEMENT_SPEED
            /\ (dir = "right" /\ old.x < WORLD_SIZE - PLAYER_SIZE) =>
                  players'[id].x = old.x + MOVEMENT_SPEED
C7_Original == [][C7_Original_Step]_vars

\* C7 amended: the symbols are the keys w (up), a (left), s (down) and
\* d (right); each moves the sender by MOVEMENT_SPEED on its axis when the
\* sender is not at the wall of that direction, and with A and B open, 'd'
\* from A at the center writes a playerMoved with x increased by
\* MOVEMENT_SPEED and y unchanged to A and to B
C7_Step ==
    MovementStep =>
        LET id == wsId[ev'.ws]
            old == players[id]
            dir == ev'.raw.direction
        IN  /\ (dir = "w" /\ ~AtWall(old, dir)) =>
                  /\ players'[id].y = old.y - MOVEMENT_SPEED
                  /\ players'[id].x = old.x
            /\ (dir = "a" /\ ~AtWall(old, dir)) =>
                  /\ players'[id].x = old.x - MOVEMENT_SPEED
                  /\ players'[id].y = old.y
            /\ (dir = "s" /\ ~AtWall(old, dir)) =>
                  /\ players'[id].y = old.y + MOVEMENT_SPEED
                  /\ players'[id].x = old.x
            /\ (dir = "d" /\ ~AtWall(old, dir)) =>
                  /\ players'[id].x = old.x + MOVEMENT_SPEED
                  /\ players'[id].y = old.y
            /\ (dir = "d" /\ old.x = initialX /\ old.y = initialY) =>
                  \A c \in Conns : readyState[c] = "OPEN" =>
                      WrittenOnce(c, [type |-> "playerMoved", playerId |-> id,
                                      x |-> initialX + MOVEMENT_SPEED,
                                      y |-> initialY])
C7_KeysMove == [][C7_Step]_vars

\* A and B are open, A has sent 'd' from the center and both were written
\* the new position
C7_Witness ==
    /\ IsMovement /\ ev.raw.direction = "d" /\ ev.ws = 1
    /\ readyState[1] = "OPEN" /\ Len(wsId) >= 2 /\ readyState[2] = "OPEN"
    /\ players[wsId[1]].x = initialX + MOVEMENT_SPEED
    /\ players[wsId[1]].y = initialY
    /\ \E i, j \in 1..Len(sent) :
          /\ sent[i].to = 1 /\ sent[j].to = 2
          /\ sent[i].msg.type = "playerMoved" /\ sent[j].msg = sent[i].msg

\* C8: a movement at the wall of its direction, or with a direction the
\* switch does not know, leaves the registry as it is, writes nothing and
\* does not stop the server
C8_Step ==
    MovementStep =>
        LET old == players[wsId[ev'.ws]]
            dir == ev'.raw.direction
        IN  (AtWall(old, dir) \/ dir \notin {"w", "a", "s", "d"}) =>
                /\ players' = players
                /\ sent' = <<>>
                /\ running'
C8_NoMoveNoBroadcast == [][C8_Step]_vars

\* 'a' was handled for a player at x = 0 while another connection is open
C8_Witness ==
    /\ IsMovement /\ ev.raw.direction = "a"
    /\ wsId[ev.ws] \in DOMAIN players
    /\ players[wsId[ev.ws]].x = 0
    /\ sent = <<>>
    /\ \E c \in Conns : c # ev.ws /\ readyState[c] = "OPEN"

\* C9: a chat message of a registered player is written once, with the
\* player's name as sender and the text unchanged, to every open
\* connection, the sender included, and the registry keeps the player
C9_ChatBroadcast ==
    (IsChat /\ readyState[ev.ws] = "OPEN") =>
        /\ running
        /\ wsId[ev.ws] \in DOMAIN players
        /\ \A c \in Conns : readyState[c] = "OPEN" =>
              /\ Cardinality(WritesTo(c)) = 1
              /\ \A i \in WritesTo(c) :
                    sent[i].msg = [type |-> "chat",
                                   sender |-> players[wsId[ev.ws]].name,
                                   message |-> ev.raw.message]

\* C10: on close of A the entry of A is gone when the playerLeft messages are
\* written, every open connection is written one playerLeft with A's id, and
\* no handler writes to a connection that has had its close event
C10_LeaveOrder ==
    /\ \A i \in 1..Len(sent) : readyState[sent[i].to] # "CLOSED"
    /\ IsClose =>
          /\ wsId[ev.ws] \notin DOMAIN players
          /\ WritesTo(ev.ws) = {}
          /\ \A i \in 1..Len(sent) :
                /\ sent[i].msg = [type |-> "playerLeft", playerId |-> wsId[ev.ws]]
                /\ wsId[ev.ws] \notin sent[i].ids
          /\ \A c \in Conns :
                Cardinality(WritesTo(c)) = IF readyState[c] = "OPEN" THEN 1 ELSE 0

\* A has closed while one connection is open and one is closing
C10_Witness ==
    /\ IsClose
    /\ Len(sent) = 1
    /\ \E c \in Conns : readyState[c] = "CLOSING"

\* the event of the step is a message with the given JSON kind
MessageStep(kind) == ev'.type = "message" /\ ev'.raw.json = kind

\* C11: text that JSON.parse rejects changes neither the registry nor any
\* connection, writes nothing and does not stop the server: the server is
\* in the state it had before, so a later message is handled as if the
\* text had never arrived
C11_Step ==
    MessageStep("invalid") =>
        /\ running'
        /\ sent' = <<>>
        /\ UNCHANGED <<players, nextPlayerId, clients, readyState, wsId, view>>
        /\ readyState'[ev'.ws] = "OPEN"
C11_MalformedDropped == [][C11_Step]_vars

\* A has moved, then sent text that is not JSON, while B is open
C11_Witness ==
    /\ ev.type = "message" /\ ev.raw.json = "invalid"
    /\ running /\ readyState[ev.ws] = "OPEN"
    /\ players[wsId[ev.ws]].x # initialX
    /\ \E c \in Conns : c # ev.ws /\ readyState[c] = "OPEN"

\* C12: the server is still running after every message and every error
\* event
C12_NoEventIsFatal == ev.type \in {"message", "error"} => running

\* C13: a second close event of a connection finds its player removed and
\* leaves the registry as the first close left it
C13_Step ==
    (ev'.type = "close" /\ readyState[ev'.ws] = "CLOSED") =>
        /\ wsId[ev'.ws] \notin DOMAIN players
        /\ players' = players
        /\ running'
C14_OnlyOpen ==
    /\ \A i \in 1..Len(sent) : readyState[sent[i].to] = "OPEN"
    /\ sent # <<>> =>
          \A c \in Conns : readyState[c] = "OPEN" => WritesTo(c) # {}

\* a broadcast has passed a closing connection and reached a later open one
C14_Witness ==
    /\ sent # <<>>
    /\ \E c1, c2 \in Conns :
          /\ c1 < c2
          /\ readyState[c1] = "CLOSING"
          /\ readyState[c2] = "OPEN"
          /\ WritesTo(c1) = {}
          /\ WritesTo(c2) # {}

\* C15: a movement message handled when the registry has no entry for the
\* sender changes nothing, writes nothing and does not stop the server
C15_Step ==
    (/\ MessageStep("object") /\ ev'.raw.type = "movement"
     /\ wsId[ev'.ws] \notin DOMAIN players) =>
        /\ running'
        /\ sent' = <<>>
        /\ UNCHANGED <<players, nextPlayerId, clients, readyState, wsId, view>>
C15_LateMovementIgnored == [][C15_Step]_vars

\* 'd' arrived from A after A's close event, while B is open
C15_Witness ==
    /\ IsMovement /\ ev.raw.direction = "d" /\ ev.state = "CLOSED"
    /\ wsId[ev.ws] \notin DOMAIN players
    /\ running
    /\ \E c \in Conns : readyState[c] = "OPEN"

\* C16: a chat message handled when the registry has no entry for the
\* sender raises no fault and writes nothing
C16_LateChatIgnored ==
    (IsChat /\ wsId[ev.ws] \notin DOMAIN players) => (running /\ sent = <<>>)

\* C17: a message with a type other than movement and chat changes nothing
\* in the registry, writes nothing and leaves the sender's connection open
C17_Step ==
    (MessageStep("object") /\ ev'.raw.type \notin {"movement", "chat"}) =>
        /\ running'
        /\ sent' = <<>>
        /\ UNCHANGED <<players, clients, readyState, view>>
        /\ readyState'[ev'.ws] = "OPEN"
C17_UnknownTypeDropped == [][C17_Step]_vars

\* A has sent a message of type ping while B is open
C17_Witness ==
    /\ ev.type = "message" /\ ev.raw.type = "ping"
    /\ running /\ readyState[ev.ws] = "OPEN"
    /\ \E c \in Conns : c # ev.ws /\ readyState[c] = "OPEN"

\* C18: an entry changes only by a movement message on its own connection
\* and then in x and y only; it is created by the connect and removed by
\* the close of its own connection
C18_Step ==
    /\ \A id \in DOMAIN players \cap DOMAIN players' :
          players'[id] # players[id] =>
              /\ ev'.type = "message" /\ ev'.raw.type = "movement"
              /\ wsId[ev'.ws] = id
              /\ players'[id].id = players[id].id
              /\ players'[id].color = players[id].color
              /\ players'[id].name = players[id].name
    /\ \A id \in DOMAIN players' \ DOMAIN players :
          ev'.type = "connection" /\ wsId'[ev'.ws] = id
    /\ \A id \in DOMAIN players \ DOMAIN players' :
          ev'.type = "close" /\ wsId[ev'.ws] = id
C18_OwnerOnly == [][C18_Step]_vars

\* a player has moved while another player, still at the center, is registered
C18_Witness ==
    /\ IsMovement /\ sent # <<>>
    /\ \E id \in DOMAIN players :
          /\ id # wsId[ev.ws]
          /\ players[id].x = initialX /\ players[id].y = initialY
    /\ players[wsId[ev.ws]].x # initialX \/ players[wsId[ev.ws]].y # initialY

\* C19: the registry holds one entry, under its own id, for every connection
\* established and not yet closed, and no other entry
C19_RegistryIsLive ==
    /\ DOMAIN players = {wsId[c] : c \in Live}
    /\ Cardinality(DOMAIN players) = Cardinality(Live)
    /\ \A c \in Live : players[wsId[c]].id = wsId[c]

\* one connection has closed, one is closing and one is open
C19_Witness ==
    /\ \E c \in Conns : readyState[c] = "CLOSED"
    /\ \E c \in Conns : readyState[c] = "CLOSING"
    /\ \E c \in Conns : readyState[c] = "OPEN"
    /\ Cardinality(DOMAIN players) = 2

\* C20: the table of every open client has the ids of the registry with the
\* registry's x and y, and no client is written a playerMoved or playerLeft
\* about an id its table does not have
C20_ViewIsRegistry ==
    \A c \in Conns : readyState[c] = "OPEN" =>
        /\ DOMAIN view[c] = DOMAIN players
        /\ \A id \in DOMAIN players :
              view[c][id].x = players[id].x /\ view[c][id].y = players[id].y
C20_Step ==
    \A i \in 1..Len(sent') :
        sent'[i].msg.type \in {"playerMoved", "playerLeft"} =>
            sent'[i].msg.playerId \in DOMAIN view[sent'[i].to]
C20_ViewsConverge == [](C20_ViewIsRegistry) /\ [][C20_Step]_vars

\* an open client has been told that one player left, after another moved
C20_Witness ==
    /\ IsClose
    /\ \E c \in Conns :
          /\ readyState[c] = "OPEN"
          /\ WritesTo(c) # {}
          /\ Cardinality(DOMAIN view[c]) = 2
          /\ \E id \in DOMAIN view[c] : id # wsId[c] /\ view[c][id].x # initialX
====
